---- MODULE Spec2Model ----
(***************************************************************************)
(* Model of the Blackhole daily-metrics pipeline:                          *)
(*   scripts/api_fetch.py   fetch, merge, CSV upsert, rolling average,     *)
(*                          summary file                                   *)
(*   scripts/post_tweet.py  load_summary (the text handed to the publisher),*)
(*                          the delivery attempts of main()                *)
(*                                                                         *)
(* Conventions.  An Optional[float] is None (the empty tuple) or <<v>>.    *)
(* NaN in a CSV cell and None in a row dict are the same absent value.     *)
(* A date is a day number standing for its ISO string (same order).        *)
(* A rolling mean is an exact fraction <<num, den>> in lowest terms.       *)
(***************************************************************************)
EXTENDS Integers, Sequences, FiniteSets, TLC

VARIABLES
    store,      \* data/black_metrics.csv: the sequence of rows
    given,      \* history: date -> the row most recently passed to upsert_today
    last_kind   \* history: what the last upsert_today of the store
                \* specification met for its date: "new" (no row), "same"
                \* (an equal row) or "changed"

storeVars == <<store, given, last_kind>>

VARIABLES
    called,     \* the source adapter under call ("none" before any call)
    payload,    \* what safe_get_json returned to it, one JSON value per GET
    result      \* what the adapter returned, or that it raised

adapterVars == <<called, payload, result>>

VARIABLES
    today,      \* the UTC day today_utc() returns
    run,        \* the last run of main() today: its status and its locals
    summary,    \* data/daily_summary.txt: whether it exists, and its lines
    tweet       \* what load_summary() returned (the text for the publisher)

runVars == <<today, run, summary, tweet>>

VARIABLES
    post,       \* the last run of post_tweet's main(): its environment, the
                \* delivery attempts it made in order, and its exit status
    procs       \* the processes inside upsert_today at the same time: where
                \* each one is, its date_str and row, and its DataFrame

lateVars == <<post, procs>>

vars == <<storeVars, adapterVars, runVars, lateVars>>

(***************************************************************************)
(* Bounds                                                                  *)
(***************************************************************************)
\* dates an upsert may name: one more than the window, so that rows leave it
MaxDate == 8

Dates == 1..MaxDate

(***************************************************************************)
(* Optional values                                                         *)
(***************************************************************************)
None == <<>>

Some(v) == <<v>>

IsNone(x) == x = None

Max(a, b) == IF a >= b THEN a ELSE b

RECURSIVE Gcd(_, _)
Gcd(a, b) == IF b = 0 THEN a ELSE Gcd(b, a % b)

\* the float num/den, as the fraction in lowest terms
Frac(num, den) == LET g == Gcd(num, den) IN
    IF g = 0 THEN <<0, 1>> ELSE <<num \div g, den \div g>>

(***************************************************************************)
(* JSON values, as r.json() returns them, and the Python operations the    *)
(* adapters apply to them                                                  *)
(***************************************************************************)
JNull == [t |-> "null"]

JBool(b) == [t |-> "bool", b |-> b]

JNum(n) == [t |-> "num", n |-> n]

JStr(s) == [t |-> "str", s |-> s]

JList(xs) == [t |-> "list", xs |-> xs]

\* a dict: kv is a function from its keys
JDict(f) == [t |-> "dict", kv |-> f]

JEmptyDict == JDict(<<>>)

\* safe_get_json's except branch: {"_error": ..., "_url": ...}
JError == JDict([_error |-> JStr("error"), _url |-> JStr("url")])

\* bool(x)
Truthy(j) ==
    CASE j.t = "null" -> FALSE
      [] j.t = "bool" -> j.b
      [] j.t = "num" -> j.n # 0
      [] j.t = "str" -> j.s # ""
      [] j.t = "list" -> j.xs # <<>>
      [] j.t = "dict" -> DOMAIN j.kv # {}

\* x or default
OrElse(j, default) == IF Truthy(j) THEN j ELSE default

\* x.get(key, default) on a dict x
GetOr(j, key, default) == IF key \in DOMAIN j.kv THEN j.kv[key] ELSE default

\* x.get(key) on a dict x
Get(j, key) == GetOr(j, key, JNull)

\* str.lower() on the strings the samples use
Lower(s) ==
    CASE s = "Avalanche" -> "avalanche"
      [] s = "Blackhole" -> "blackhole"
      [] s = "Bribe" -> "bribe"
      [] OTHER -> s

\* "blackhole" in s
HasBlackhole(s) == s \in {"blackhole", "https://dexscreener.com/avalanche/blackhole"}

\* "bribe" in s
HasBribe(s) == s \in {"bribe", "bribes"}

\* "24" in s and "7" in s
Has24(s) == s \in {"24h"}

Has7(s) == s \in {"7d"}

\* float(x): the value, or that float() raised (ValueError or TypeError)
Float(j) ==
    CASE j.t = "num" -> [ok |-> TRUE, v |-> j.n]
      [] j.t = "bool" -> [ok |-> TRUE, v |-> IF j.b THEN 1 ELSE 0]
      [] j.t = "str" /\ j.s = "100" -> [ok |-> TRUE, v |-> 100]
      [] j.t = "str" /\ j.s = "0" -> [ok |-> TRUE, v |-> 0]
      [] OTHER -> [ok |-> FALSE]

\* to_float(x): None for None and for whatever float() rejects
to_float(j) == LET f == Float(j) IN IF f.ok THEN Some(f.v) ELSE None

\* an adapter's outcome: it raised, or it returned value
Raised == [raised |-> TRUE]

Returned(value) == [raised |-> FALSE, value |-> value]

\* for x in j: the items, or that j is not iterable (a dict gives its keys)
Items(j) ==
    CASE j.t = "list" -> [ok |-> TRUE, v |-> j.xs]
      [] j.t = "dict" /\ DOMAIN j.kv = {} -> [ok |-> TRUE, v |-> <<>>]
      [] j.t = "dict" -> [ok |-> TRUE, v |-> <<JStr("key")>>]
      [] j.t = "str" -> [ok |-> TRUE, v |-> IF j.s = "" THEN <<>> ELSE <<JStr("c")>>]
      [] OTHER -> [ok |-> FALSE]

\* (p.get(key) or "").lower() on a dict p: the string, or that .lower()
\* is no attribute of the value
LowerOf(p, key) ==
    LET x == OrElse(Get(p, key), JStr("")) IN
    IF x.t = "str" THEN [ok |-> TRUE, v |-> Lower(x.s)] ELSE [ok |-> FALSE]

(***************************************************************************)
(* get_blackhole_volume_24h                                                *)
(***************************************************************************)
\* the loop body for one pair p, on acc = <<total, matched>>: the new acc,
\* or that the body raised (only float(v) is inside a try)
VolumeOfPair(acc, p) ==
    IF p.t # "dict" THEN Raised
    ELSE LET chain == LowerOf(p, "chainId") IN
    IF ~chain.ok THEN Raised
    ELSE IF chain.v # "avalanche" THEN Returned(acc)
    ELSE LET dexid == LowerOf(p, "dexId") IN
    IF ~dexid.ok THEN Raised
    ELSE LET urlp == LowerOf(p, "url") IN
    IF ~urlp.ok THEN Raised
    ELSE IF ~(HasBlackhole(dexid.v) \/ HasBlackhole(urlp.v)) THEN Returned(acc)
    ELSE LET vol == GetOr(p, "volume", JEmptyDict) IN
    IF vol.t # "dict" THEN Raised
    ELSE LET f == Float(GetOr(vol, "h24", Get(p, "volume24h"))) IN
    IF f.ok THEN Returned(<<acc[1] + f.v, acc[2] + 1>>) ELSE Returned(acc)

\* for p in pairs: ...
RECURSIVE VolumeLoop(_, _)
VolumeLoop(acc, pairs) ==
    IF pairs = <<>> THEN Returned(acc)
    ELSE LET one == VolumeOfPair(acc, Head(pairs)) IN
         IF one.raised THEN Raised ELSE VolumeLoop(one.value, Tail(pairs))

\* get_blackhole_volume_24h() given the JSON safe_get_json returned: the
\* volume (None when no pair matched), or that it raised
VolumeOfPairsKey(j) ==
    IF j.t # "dict" \/ "pairs" \notin DOMAIN j.kv THEN Raised
    ELSE LET pairs == Items(OrElse(j.kv["pairs"], JList(<<>>))) IN
    IF ~pairs.ok THEN Raised
    ELSE LET loop == VolumeLoop(<<0, 0>>, pairs.v) IN
    IF loop.raised THEN Raised
    ELSE Returned(IF loop.value[2] > 0 THEN Some(loop.value[1]) ELSE None)

get_blackhole_volume_24h(j) ==
    LET base == OrElse(j, JEmptyDict) IN
    IF base.t # "dict" THEN Raised
    ELSE LET pairs == Items(OrElse(Get(base, "pairs"), JList(<<>>))) IN
    IF ~pairs.ok THEN Raised
    ELSE LET loop == VolumeLoop(<<0, 0>>, pairs.v) IN
    IF loop.raised THEN Raised
    ELSE Returned(IF loop.value[2] > 0 THEN Some(loop.value[1]) ELSE None)

(***************************************************************************)
(* get_tvl_combined                                                        *)
(***************************************************************************)
\* isinstance(x, (int, float)): a bool is an int
IsNumber(j) == j.t \in {"num", "bool"}

\* the protocol-timeseries fallback on arr[-1]
TvlOfLast(last) ==
    LET fromPair ==
            IF last.t = "list" /\ Len(last.xs) >= 2 /\ last.xs[2].t # "null"
            THEN to_float(last.xs[2]) ELSE None
        fromDict ==
            IF last.t = "dict" /\ "totalLiquidityUSD" \in DOMAIN last.kv
            THEN to_float(Get(last, "totalLiquidityUSD")) ELSE None IN
    IF ~IsNone(fromPair) THEN fromPair ELSE fromDict

\* get_tvl_combined() given the JSON of the simple endpoint (j1) and of the
\* protocol endpoint (j2, fetched only when j1 gave no number)
get_tvl_combined(j1, j2) ==
    IF IsNumber(j1) THEN Returned(to_float(j1))
    ELSE IF j1.t = "dict" /\ "tvl" \in DOMAIN j1.kv /\ IsNumber(j1.kv["tvl"])
    THEN Returned(to_float(j1.kv["tvl"]))
    ELSE LET base == OrElse(j2, JEmptyDict) IN
    IF base.t # "dict" THEN Raised
    ELSE LET arr == OrElse(Get(base, "tvl"), JList(<<>>)) IN
    IF arr.t = "list" /\ arr.xs # <<>>
    THEN Returned(TvlOfLast(arr.xs[Len(arr.xs)]))
    ELSE Returned(None)

(***************************************************************************)
(* get_fees_summary, get_blackhole_fees_and_revenue                        *)
(***************************************************************************)
\* try: to_float(chart[-1][1]) except: pass, on a non-empty list chart
ChartLast(chart) ==
    LET last == chart.xs[Len(chart.xs)] IN
    CASE last.t = "list" /\ Len(last.xs) >= 2 -> to_float(last.xs[2])
      [] last.t = "str" /\ last.s = "100" -> to_float(JStr("0"))
      [] OTHER -> None

\* one total: the key's value, else the last point of its chart
FeesTotal(j, key, chartKey) ==
    LET direct == to_float(Get(j, key))
        chart == Get(j, chartKey) IN
    IF IsNone(direct) /\ chart.t = "list" /\ chart.xs # <<>>
    THEN ChartLast(chart) ELSE direct

\* get_fees_summary(slug) given the JSON: <<total24, total7>>
get_fees_summary(j) ==
    IF j.t = "dict"
    THEN Returned(<<FeesTotal(j, "total24h", "totalDataChart"),
                    FeesTotal(j, "total7d", "totalDataChart7d")>>)
    ELSE Returned(<<None, None>>)

\* (a or 0.0) + (b or 0.0) if (a is not None or b is not None) else None
SumOrNone(a, b) ==
    IF IsNone(a) /\ IsNone(b) THEN None
    ELSE Some((IF IsNone(a) THEN 0 ELSE a[1]) + (IF IsNone(b) THEN 0 ELSE b[1]))

\* get_blackhole_fees_and_revenue() given the AMM and CLMM JSON: fees_map
get_blackhole_fees_and_revenue(jAmm, jClmm) ==
    LET amm == get_fees_summary(jAmm).value
        clmm == get_fees_summary(jClmm).value IN
    [fees_24h_usd |-> SumOrNone(amm[1], clmm[1]),
     fees_7d_usd |-> SumOrNone(amm[2], clmm[2]),
     revenue_24h_usd |-> None,
     revenue_7d_usd |-> None]

(***************************************************************************)
(* extract_bribes_from_incentives_json, get_blackhole_bribes               *)
(***************************************************************************)
\* a or b on Optional[float]: None and 0.0 are falsy
OptOr(a, b) == IF IsNone(a) \/ a[1] = 0 THEN b ELSE a

\* (b or 0) + (val or 0)
AddOpt(b, val) ==
    Some((IF IsNone(b) THEN 0 ELSE b[1]) + (IF IsNone(val) THEN 0 ELSE val[1]))

\* the first of the four total keys that to_float accepts, as <<b24, b7>>
RECURSIVE BribesFromTotals(_, _)
BribesFromTotals(j, keys) ==
    IF keys = <<>> THEN None
    ELSE LET v == to_float(Get(j, Head(keys))) IN
         IF ~IsNone(v)
         THEN Some(<<v, OptOr(to_float(Get(j, "bribes7dUsd")),
                              to_float(Get(j, "totalBribes7dUsd")))>>)
         ELSE BribesFromTotals(j, Tail(keys))

\* the list loop's body for one item, on acc = <<b24, b7>>
BribesOfItem(acc, it) ==
    IF it.t # "dict" THEN Returned(acc)
    ELSE LET ty == GetOr(it, "type", JStr("")) IN
    IF ty.t # "str" THEN Raised
    ELSE IF ~HasBribe(Lower(ty.s)) THEN Returned(acc)
    ELSE LET val == to_float(OrElse(Get(it, "valueUsd"),
                                    OrElse(Get(it, "usd"), Get(it, "value"))))
             w == OrElse(Get(it, "window"), OrElse(Get(it, "period"), JStr(""))) IN
    IF w.t # "str" THEN Raised
    ELSE Returned(<<IF Has24(Lower(w.s)) THEN AddOpt(acc[1], val) ELSE acc[1],
                    IF Has7(Lower(w.s)) THEN AddOpt(acc[2], val) ELSE acc[2]>>)

RECURSIVE BribesLoop(_, _)
BribesLoop(acc, items) ==
    IF items = <<>> THEN Returned(acc)
    ELSE LET one == BribesOfItem(acc, Head(items)) IN
         IF one.raised THEN Raised ELSE BribesLoop(one.value, Tail(items))

\* extract_bribes_from_incentives_json(j): <<b24, b7>>, or that it raised
extract_bribes_from_incentives_json(j) ==
    LET totals == IF j.t = "dict"
                  THEN BribesFromTotals(j, <<"bribes24hUsd", "bribes_24h_usd",
                                             "bribes24h", "totalBribes24hUsd">>)
                  ELSE None IN
    IF ~IsNone(totals) THEN Returned(totals[1])
    ELSE IF j.t = "list" THEN BribesLoop(<<None, None>>, j.xs)
    ELSE Returned(<<None, None>>)

\* get_blackhole_bribes() given the JSON: bribe_map, or that it raised
get_blackhole_bribes(j) ==
    LET b == extract_bribes_from_incentives_json(j) IN
    IF b.raised THEN Raised
    ELSE Returned([bribes_24h_usd |-> b.value[1], bribes_7d_usd |-> b.value[2]])

(***************************************************************************)
(* upsert_today: the CSV upsert and the rolling average                    *)
(***************************************************************************)
\* rolling(window=7, ...)
WINDOW == 7

\* rolling(..., min_periods=1)
MIN_PERIODS == 1

\* the row dict main() builds: every column of cols, avg7d_volume_usd None
MakeRow(d, vol, tvl, fees24, fees7, rev24, rev7, bribes24, bribes7) ==
    [date |-> d, volume_24h_usd |-> vol, tvl_usd |-> tvl,
     fees_24h_usd |-> fees24, fees_7d_usd |-> fees7,
     revenue_24h_usd |-> rev24, revenue_7d_usd |-> rev7,
     bribes_24h_usd |-> bribes24, bribes_7d_usd |-> bribes7,
     avg7d_volume_usd |-> None]

\* no row (a date never given)
NoRow == [date |-> 0]

\* df = df[df["date"] != date_str]
DropDateBug(df, d) == df

DropUpToDate(df, d) == SelectSeq(df, LAMBDA r : r.date > d)

DropDate(df, d) == SelectSeq(df, LAMBDA r : r.date # d)

\* one step of the sort: r put after the last row whose date is not later
RECURSIVE InsertByDate(_, _)
InsertByDate(sorted, r) ==
    IF sorted = <<>> \/ sorted[Len(sorted)].date <= r.date THEN Append(sorted, r)
    ELSE Append(InsertByDate(SubSeq(sorted, 1, Len(sorted) - 1), r), sorted[Len(sorted)])

\* df.sort_values("date").reset_index(drop=True)
RECURSIVE sort_values(_)
sort_values(df) ==
    IF df = <<>> THEN <<>>
    ELSE InsertByDate(sort_values(SubSeq(df, 1, Len(df) - 1)), df[Len(df)])

\* pd.to_numeric(df["volume_24h_usd"], errors="coerce"): the column, NaN for absent
VolumeColumn(df) == [i \in 1..Len(df) |-> df[i].volume_24h_usd]

\* value x entering (sign 1) or leaving (sign -1) the window's running
\* <<sum, nobs>>; a NaN changes neither
RollAdd(acc, x, sign) ==
    IF IsNone(x) THEN acc ELSE <<acc[1] + sign * x[1], acc[2] + sign>>

\* the window moving on to row i (pandas' sliding window): the entering value
\* is added, the value that left the window is removed
RollStepWide(acc, col, i) ==
    LET added == RollAdd(acc, col[i], 1) IN
    IF i > WINDOW + 1 THEN RollAdd(added, col[i - WINDOW - 1], -1) ELSE added

RollStep(acc, col, i) ==
    LET added == RollAdd(acc, col[i], 1) IN
    IF i > WINDOW THEN RollAdd(added, col[i - WINDOW], -1) ELSE added

\* the running <<sum, nobs>> of the windows ending at rows 1..i
RECURSIVE RollStates(_, _)
RollStates(col, i) ==
    IF i = 0 THEN <<>>
    ELSE LET before == RollStates(col, i - 1)
             acc == IF i = 1 THEN <<0, 0>> ELSE before[i - 1] IN
         Append(before, RollStep(acc, col, i))

\* .rolling(window=7, min_periods=1).mean(): NaN below min_periods observations
RollingMean(col) ==
    LET accs == RollStates(col, Len(col)) IN
    [i \in 1..Len(col) |->
        IF accs[i][2] >= MIN_PERIODS THEN Frac(accs[i][1], accs[i][2]) ELSE None]

\* upsert_today(csv_path, date_str, row) on the CSV content df: the content
\* written back (and returned)
upsert_today(df, d, r) ==
    LET kept == DropDate(df, d)
        sorted == sort_values(Append(kept, r))
        s == RollingMean(VolumeColumn(sorted)) IN
    [i \in 1..Len(sorted) |-> [sorted[i] EXCEPT !.avg7d_volume_usd = s[i]]]

(***************************************************************************)
(* Text: a sequence of lines; a line is its kind, the lengths of its words *)
(* (single spaces between them; none for a blank line) and whether it is   *)
(* whole or was cut                                                        *)
(***************************************************************************)
Line(kind, words) == [kind |-> kind, words |-> words, whole |-> TRUE]

RECURSIVE SumLens(_)
SumLens(ws) == IF ws = <<>> THEN 0 ELSE Head(ws) + SumLens(Tail(ws))

\* len(line)
LineLen(l) == IF l.words = <<>> THEN 0 ELSE SumLens(l.words) + Len(l.words) - 1

\* len("\n".join(lines))
RECURSIVE TextLen(_)
TextLen(lines) ==
    IF lines = <<>> THEN 0
    ELSE IF Len(lines) = 1 THEN LineLen(lines[1])
    ELSE LineLen(lines[1]) + 1 + TextLen(Tail(lines))

\* the number of decimal digits of n >= 0
RECURSIVE Digits(_)
Digits(n) == IF n < 10 THEN 1 ELSE 1 + Digits(n \div 10)

\* round(q) of the fraction q, halves to even (the format spec .0f)
RoundHalfEven(q) ==
    LET fl == q[1] \div q[2]
        twice == 2 * (q[1] % q[2]) IN
    IF twice > q[2] \/ (twice = q[2] /\ fl % 2 = 1) THEN fl + 1 ELSE fl

\* len(f"${v:,.0f}") for a value of the given number of integer digits
MoneyLenOfDigits(digits) == 1 + digits + ((digits - 1) \div 3)

\* len(money(v)) of an Optional value (a float, as the fraction v/1):
\* None when money(v) is None
MoneyLen(x) == IF IsNone(x) THEN None ELSE Some(MoneyLenOfDigits(Digits(x[1])))

\* len(money(v)) of the rolling mean, a fraction
MoneyLenOfMean(q) ==
    IF IsNone(q) THEN None ELSE Some(MoneyLenOfDigits(Digits(RoundHalfEven(q))))

\* "#DeFi #Avalanche #DEX #BlackholeDex"
HashtagWords == <<5, 10, 4, 13>>

\* one metric line: its label's words and the money string, or no line
\* when money(v) is None (the empty tuple is spliced in)
MetricLineAlways(kind, labelWords, moneyLen) ==
    <<Line(kind, Append(labelWords, IF IsNone(moneyLen) THEN 4 ELSE moneyLen[1]))>>

MetricLine(kind, labelWords, moneyLen) ==
    IF IsNone(moneyLen) THEN <<>> ELSE <<Line(kind, Append(labelWords, moneyLen[1]))>>

\* the lines list of main(), given len(money(v)) of each of vals (None for
\* an absent one), with the empty strings that the write filters out
SummaryLines(m) ==
    <<Line("headline", <<1, 9, 5, 8, 12>>)>>
    \o MetricLine("vol", <<1, 3, 7>>, m.vol)
    \o MetricLine("tvl", <<1, 4>>, m.tvl)
    \o MetricLine("fees24", <<1, 3, 4, 11>>, m.fees24)
    \o MetricLine("bribes24", <<1, 3, 7>>, m.bribes24)
    \o MetricLine("avg7", <<1, 5, 3, 7>>, m.avg7)
    \o <<Line("asof", <<2, 2, 2, 10, 5, 3>>),
         Line("sources", <<8, 11, 9, 9, 7, 4, 6, 3, 16>>),
         Line("hashtags", HashtagWords)>>

\* SUMMARY_PATH.write_text("\n".join([ln for ln in lines if ln]))
WriteSummary(lines) == [exists |-> TRUE, lines |-> lines]

NoSummary == [exists |-> FALSE, lines |-> <<>>]

(***************************************************************************)
(* load_summary() of post_tweet.py                                         *)
(***************************************************************************)
\* MAX_LEN = 280
MAX_LEN == 280

\* the 240 of load_summary
KEEP_LEN == 240

\* line.words[:n] with the trailing space stripped: the first n characters
\* of a line of these words
RECURSIVE CutWords(_, _)
CutWords(words, n) ==
    IF words = <<>> \/ n <= 0 THEN <<>>
    ELSE IF Head(words) >= n THEN <<n>>
    ELSE <<Head(words)>> \o CutWords(Tail(words), n - Head(words) - 1)

\* text[:n].rstrip() of a text of non-blank lines
TruncateWholeLine(text, n) == IF text = <<>> THEN <<>> ELSE <<Head(text)>>

RECURSIVE Truncate(_, _)
Truncate(text, n) ==
    IF text = <<>> \/ n <= 0 THEN <<>>
    ELSE IF LineLen(Head(text)) > n
         THEN <<[Head(text) EXCEPT !.words = CutWords(Head(text).words, n), !.whole = FALSE]>>
    ELSE <<Head(text)>> \o Truncate(Tail(text), n - LineLen(Head(text)) - 1)

\* lines = [l.strip() for l in txt.splitlines() if l.strip()]
NonBlank(lines) == SelectSeq(lines, LAMBDA l : l.words # <<>>)

\* not (len("\n".join(keep + [L])) > 240)
Fits(keep, L) == TextLen(Append(keep, L)) <= KEEP_LEN

\* for L in lines: break at the first line that does not fit, else keep it
RECURSIVE KeepLoop(_, _)
KeepLoop(keep, lines) ==
    IF lines = <<>> \/ ~Fits(keep, Head(lines)) THEN keep
    ELSE KeepLoop(Append(keep, Head(lines)), Tail(lines))

\* load_summary() not called yet
NotLoaded == [loaded |-> FALSE, text |-> <<>>]

\* load_summary() on the summary file: the text it returns ("" is <<>>)
load_summary(file) ==
    IF ~file.exists THEN <<>>
    ELSE LET lines == NonBlank(file.lines)
             keep == KeepLoop(<<>>, lines)
             core == IF keep # <<>> THEN keep ELSE Truncate(lines, KEEP_LEN)
             candidate == Append(core, Line("hashtags", HashtagWords)) IN
         IF TextLen(candidate) <= MAX_LEN THEN candidate ELSE Truncate(core, MAX_LEN)

(***************************************************************************)
(* main() of post_tweet.py: the delivery attempts                          *)
(***************************************************************************)
\* an exception of a delivery call: the status code of its response (0 when
\* it has no response) and its message
Err(code, msg) == [code |-> code, msg |-> msg]

\* str(e).lower() on the messages the samples use
LowerMsg(msg) ==
    CASE msg = "403 Forbidden 187 - Status is a duplicate." -> "403 forbidden 187 - status is a duplicate."
      [] msg = "You have already posted that" -> "you have already posted that"
      [] msg = "403 Forbidden" -> "403 forbidden"
      [] msg = "453 - You currently have access to a subset of endpoints" ->
            "453 - you currently have access to a subset of endpoints"
      [] msg = "Status is a duplicate." -> "status is a duplicate."
      [] msg = "Not authorized" -> "not authorized"
      [] msg = "500 Internal Server Error" -> "500 internal server error"
      [] OTHER -> msg

\* any(k in lowered for k in ["453", "forbidden", "you currently have access
\* to a subset", "not authorized"])
HasPermissionWord(lowered) ==
    lowered \in {"403 forbidden 187 - status is a duplicate.", "403 forbidden",
                 "453 - you currently have access to a subset of endpoints",
                 "not authorized"}

\* "duplicate" in msg or "already posted" in msg
HasDuplicateWord(lowered) ==
    lowered \in {"403 forbidden 187 - status is a duplicate.",
                 "you have already posted that", "status is a duplicate."}

is_permission_error(e) ==
    \/ e.code \in {453, 403}
    \/ HasPermissionWord(LowerMsg(e.msg))

is_duplicate_error(e) == e.code = 403 /\ HasDuplicateWord(LowerMsg(e.msg))

\* the words of tag = f" (update {utc_hm()} UTC)", each after a space
TagWords == <<7, 5, 4>>

\* len(tag)
TagLen == SumLens(TagWords) + Len(TagWords)

\* text + tag: the tag's words go on the last line (an empty text gives the
\* tag alone, which starts with its space)
AddTag(text) ==
    IF text = <<>> THEN <<Line("tag", <<0>> \o TagWords)>>
    ELSE [text EXCEPT ![Len(text)].words = @ \o TagWords]

\* append_update_tag(text)
AppendTagUncut(text) == AddTag(text)

append_update_tag(text) ==
    IF TextLen(text) + TagLen <= MAX_LEN THEN AddTag(text)
    ELSE AddTag(Truncate(text, MAX_LEN - TagLen))

\* the outcome of a delivery call: it returned, or it raised e
Delivered == [ok |-> TRUE]

Failed(e) == [ok |-> FALSE, e |-> e]

\* one call of post_v2 (api "v2") or post_v1 (api "v1.1") with its outcome
Attempt(api, text, outcome) == [api |-> api, text |-> text, outcome |-> outcome]

\* main() has returned (exit status 0) or called sys.exit(1)
PostEnd(dry, creds, attempts, exit) ==
    [ran |-> TRUE, dry |-> dry, creds |-> creds, attempts |-> attempts, exit |-> exit]

\* post_tweet's main() has not run
NoPost == [ran |-> FALSE, dry |-> FALSE, creds |-> FALSE, attempts |-> <<>>, exit |-> 0]

\* main() of post_tweet.py after tweet = load_summary(): dry is DRY_RUN,
\* creds that all four credentials are set, o1, o2 and o3 the outcomes of the
\* first post_v2 call, of the retry and of post_v1, should main() make them
PostRun(text, dry, creds, o1, o2, o3) ==
    IF text = <<>> THEN PostEnd(dry, creds, <<>>, 0)
    ELSE IF dry \/ ~creds THEN PostEnd(dry, creds, <<>>, 0)
    ELSE LET first == <<Attempt("v2", text, o1)>> IN
    IF o1.ok THEN PostEnd(dry, creds, first, 0)
    ELSE LET retried == is_duplicate_error(o1.e)
             made == IF retried
                     THEN Append(first, Attempt("v2", append_update_tag(text), o2))
                     ELSE first IN
    IF retried /\ o2.ok THEN PostEnd(dry, creds, made, 0)
    ELSE IF is_permission_error(o1.e)
         THEN PostEnd(dry, creds, Append(made, Attempt("v1.1", text, o3)),
                      IF o3.ok THEN 0 ELSE 1)
    ELSE PostEnd(dry, creds, made, 1)

\* the processes that may call upsert_today at the same time
ProcIds == {1, 2}

\* a process outside upsert_today
IdleProc == [pc |-> "idle", date |-> 0, row |-> NoRow, df |-> <<>>]

\* no process is inside upsert_today
NoProcs == [p \in ProcIds |-> IdleProc]

LateIdle ==
    /\ post = NoPost
    /\ procs = NoProcs

(***************************************************************************)
(* main() of api_fetch.py                                                  *)
(***************************************************************************)
\* scrape_llama_blackhole_metrics(): the dict it returns, a missing key None
Scraped(vol, tvl, fees24, fees7, rev24, rev7, bribes24, bribes7) ==
    [volume_24h_usd |-> vol, tvl_usd |-> tvl,
     fees_24h_usd |-> fees24, fees_7d_usd |-> fees7,
     revenue_24h_usd |-> rev24, revenue_7d_usd |-> rev7,
     bribes_24h_usd |-> bribes24, bribes_7d_usd |-> bribes7]

ScrapedNothing == Scraped(None, None, None, None, None, None, None, None)

\* if scraped:
ScrapedAny(scraped) == scraped # ScrapedNothing

\* if x is None and scraped.get(k) is not None: x = scraped[k]
FillNoneAlways(x, fromScrape) == IF ~IsNone(fromScrape) THEN fromScrape ELSE x

FillNone(x, fromScrape) == IF IsNone(x) /\ ~IsNone(fromScrape) THEN fromScrape ELSE x

\* if (x is None or x == 0) and scraped.get(k) is not None: x = scraped[k]
FillNoneOrZero(x, fromScrape) ==
    IF (IsNone(x) \/ x[1] = 0) /\ ~IsNone(fromScrape) THEN fromScrape ELSE x

\* the merge of the API results with the scrape, and the row dict
BuildRow(d, vol, tvl, fees_map, bribe_map, scraped) ==
    IF ~ScrapedAny(scraped)
    THEN MakeRow(d, vol, tvl,
                 fees_map.fees_24h_usd, fees_map.fees_7d_usd,
                 fees_map.revenue_24h_usd, fees_map.revenue_7d_usd,
                 bribe_map.bribes_24h_usd, bribe_map.bribes_7d_usd)
    ELSE MakeRow(d,
                 FillNoneOrZero(vol, scraped.volume_24h_usd),
                 FillNone(tvl, scraped.tvl_usd),
                 FillNone(fees_map.fees_24h_usd, scraped.fees_24h_usd),
                 FillNone(fees_map.fees_7d_usd, scraped.fees_7d_usd),
                 FillNone(fees_map.revenue_24h_usd, scraped.revenue_24h_usd),
                 FillNone(fees_map.revenue_7d_usd, scraped.revenue_7d_usd),
                 FillNone(bribe_map.bribes_24h_usd, scraped.bribes_24h_usd),
                 FillNone(bribe_map.bribes_7d_usd, scraped.bribes_7d_usd))

\* latest = df[df["date"] == date_str].tail(1); vals, as len(money(v))
ValsMoney(df, d) ==
    LET at == {i \in 1..Len(df) : df[i].date = d} IN
    IF at = {}
    THEN [vol |-> None, tvl |-> None, fees24 |-> None, bribes24 |-> None, avg7 |-> None]
    ELSE LET latest == df[CHOOSE i \in at : \A k \in at : k <= i] IN
         [vol |-> MoneyLen(latest.volume_24h_usd),
          tvl |-> MoneyLen(latest.tvl_usd),
          fees24 |-> MoneyLen(latest.fees_24h_usd),
          bribes24 |-> MoneyLen(latest.bribes_24h_usd),
          avg7 |-> MoneyLenOfMean(latest.avg7d_volume_usd)]

\* the run before main() has started
NoRun == [status |-> "none", all_failed |-> FALSE]

\* every GET came back as safe_get_json's error dict and the scrape found
\* nothing
AllFailed(jDs, jTvl1, jTvl2, jAmm, jClmm, jInc, scraped) ==
    /\ \A j \in {jDs, jTvl1, jTvl2, jAmm, jClmm, jInc} : j = JError
    /\ ~ScrapedAny(scraped)

\* main() on day d up to the row dict, given what each GET and the scrape
\* returned: the adapters in turn (an exception ends the run before anything
\* is stored), then the merge
RunOf(d, jDs, jTvl1, jTvl2, jAmm, jClmm, jInc, scraped) ==
    LET vol == get_blackhole_volume_24h(jDs)
        tvl == get_tvl_combined(jTvl1, jTvl2)
        fees_map == get_blackhole_fees_and_revenue(jAmm, jClmm)
        bribes == get_blackhole_bribes(jInc)
        failed == AllFailed(jDs, jTvl1, jTvl2, jAmm, jClmm, jInc, scraped) IN
    IF vol.raised \/ tvl.raised \/ bribes.raised
    THEN [status |-> "raised", all_failed |-> failed]
    ELSE [status |-> "done", all_failed |-> failed,
          api |-> Scraped(vol.value, tvl.value,
                          fees_map.fees_24h_usd, fees_map.fees_7d_usd,
                          fees_map.revenue_24h_usd, fees_map.revenue_7d_usd,
                          bribes.value.bribes_24h_usd, bribes.value.bribes_7d_usd),
          scraped |-> scraped,
          row |-> BuildRow(d, vol.value, tvl.value, fees_map, bribes.value, scraped)]

(***************************************************************************)
(* Inputs of the store specification                                       *)
(***************************************************************************)
\* the 24h volume the upstream reports on day d
DayVolume(d) == 10 * d

\* rows an upsert for date d is given: nothing known, or volume and TVL known
SampleRows(d) ==
    { MakeRow(d, None, None, None, None, None, None, None, None),
      MakeRow(d, Some(DayVolume(d)), Some(1000000), None, None, None, None, None, None) }

\* the row of df for date d as it was given (avg7d_volume_usd not yet set)
Fetched(r) == [r EXCEPT !.avg7d_volume_usd = None]

HasDate(df, d) == \E i \in 1..Len(df) : df[i].date = d

KindOf(df, d, r) ==
    IF ~HasDate(df, d) THEN "new"
    ELSE IF \E i \in 1..Len(df) : df[i].date = d /\ Fetched(df[i]) = r THEN "same"
    ELSE "changed"

AdaptersIdle ==
    /\ called = "none"
    /\ payload = <<>>
    /\ result = [raised |-> FALSE, value |-> None]

RunIdle ==
    /\ today = 1
    /\ run = NoRun
    /\ summary = NoSummary
    /\ tweet = NotLoaded
    /\ LateIdle

InitStore ==
    /\ store = <<>>
    /\ given = [d \in Dates |-> NoRow]
    /\ last_kind = "none"
    /\ AdaptersIdle
    /\ RunIdle

Upsert(d, r) ==
    /\ store' = upsert_today(store, d, r)
    /\ given' = [given EXCEPT ![d] = r]
    /\ last_kind' = KindOf(store, d, r)
    /\ UNCHANGED <<adapterVars, runVars, lateVars>>

NextStore == \E d \in Dates : \E r \in SampleRows(d) : Upsert(d, r)

SpecStore == InitStore /\ [][NextStore]_vars

(***************************************************************************)
(* The daily runs of main()                                                *)
(***************************************************************************)
\* a DexScreener pair
Pair(chain, dex, volume) == [chainId |-> chain, dexId |-> dex, volume |-> volume]

H24(v) == JDict([h24 |-> v])

\* days on which main() may run
MaxDay == 2

\* the DexScreener search result with one Blackhole pair of volume v
BlackholePairs(v) ==
    JDict([pairs |-> JList(<<JDict(Pair(JStr("avalanche"), JStr("blackhole"), H24(JNum(v))))>>)])

\* what the DexScreener GET returns on day d: an error, the day's volume, a
\* zero volume, a JSON list
RunDs(d) == {JError, BlackholePairs(DayVolume(d)), BlackholePairs(0), JList(<<JNum(1)>>)}

\* what the two TVL GETs return
RunTvl1 == {JError, JNum(1000000)}

RunTvl2 == {JError}

\* what the AMM and CLMM fees GETs return
RunAmm == {JError, JDict([total24h |-> JNum(300), total7d |-> JNum(2000)])}

RunClmm == {JError}

\* what the incentives GET returns
RunInc == {JError}

\* what the page scrape returns on day d: nothing, or every 24h metric
RunScraped(d) ==
    {ScrapedNothing,
     Scraped(Some(DayVolume(d) + 5), Some(999000), Some(299), None,
             None, None, Some(50), None)}

Init ==
    /\ store = <<>>
    /\ given = [d \in Dates |-> NoRow]
    /\ last_kind = "none"
    /\ AdaptersIdle
    /\ RunIdle

\* one run of main() today
main(jDs, jTvl1, jTvl2, jAmm, jClmm, jInc, scraped) ==
    \E r \in {RunOf(today, jDs, jTvl1, jTvl2, jAmm, jClmm, jInc, scraped)} :
    /\ run' = r
    /\ IF r.status = "raised"
       THEN UNCHANGED <<store, given, summary>>
       ELSE \E df \in {upsert_today(store, today, r.row)} :
            /\ store' = df
            /\ given' = [given EXCEPT ![today] = r.row]
            /\ summary' = WriteSummary(SummaryLines(ValsMoney(df, today)))
    /\ UNCHANGED <<today, last_kind, tweet, adapterVars, lateVars>>

\* midnight UTC: the next run is the next day's
Tick ==
    /\ today < MaxDay
    /\ today' = today + 1
    /\ run' = NoRun
    /\ UNCHANGED <<storeVars, adapterVars, summary, tweet, lateVars>>

Next ==
    \/ \E jDs \in RunDs(today), jTvl1 \in RunTvl1, jTvl2 \in RunTvl2,
          jAmm \in RunAmm, jClmm \in RunClmm, jInc \in RunInc,
          scraped \in RunScraped(today) :
            main(jDs, jTvl1, jTvl2, jAmm, jClmm, jInc, scraped)
    \/ Tick

Spec == Init /\ [][Next]_vars

(***************************************************************************)
(* The source adapters on the payload shapes an upstream can return        *)
(***************************************************************************)
\* JSON values of every shape: null, booleans, numbers, strings, lists,
\* dicts with the expected keys missing, null or of the wrong type
SamplePayloads ==
    { JError, JNull, JBool(TRUE), JBool(FALSE), JNum(0), JNum(5), JStr(""),
      JStr("text"), JList(<<>>), JList(<<JNum(1)>>), JList(<<JNull>>), JEmptyDict,
      \* DexScreener shapes
      JDict([pairs |-> JNull]),
      JDict([pairs |-> JNum(7)]),
      JDict([pairs |-> JList(<<JStr("text")>>)]),
      JDict([pairs |-> JDict([a |-> JNum(1)])]),
      JDict([pairs |-> JList(<<JDict(Pair(JStr("Avalanche"), JStr("Blackhole"), H24(JNum(40))))>>)]),
      JDict([pairs |-> JList(<<JDict(Pair(JStr("ethereum"), JStr("blackhole"), H24(JNum(40)))),
                               JDict(Pair(JStr("avalanche"), JStr("blackhole"), H24(JStr("100"))))>>)]),
      JDict([pairs |-> JList(<<JDict(Pair(JNull, JStr("blackhole"), H24(JNum(40))))>>)]),
      JDict([pairs |-> JList(<<JDict(Pair(JNum(43114), JStr("blackhole"), H24(JNum(40))))>>)]),
      JDict([pairs |-> JList(<<JDict(Pair(JStr("avalanche"), JNull, H24(JNum(40))))>>)]),
      JDict([pairs |-> JList(<<JDict(Pair(JStr("avalanche"), JStr("blackhole"), JNull))>>)]),
      JDict([pairs |-> JList(<<JDict(Pair(JStr("avalanche"), JStr("blackhole"), JNum(40)))>>)]),
      JDict([pairs |-> JList(<<JDict(Pair(JStr("avalanche"), JStr("blackhole"), H24(JNull)))>>)]),
      JDict([pairs |-> JList(<<JDict([chainId |-> JStr("avalanche"),
                                      url |-> JStr("https://dexscreener.com/avalanche/blackhole"),
                                      volume24h |-> JNum(40)])>>)]),
      \* DeFiLlama TVL shapes
      JDict([tvl |-> JNum(5)]),
      JDict([tvl |-> JNull]),
      JDict([tvl |-> JStr("text")]),
      JDict([tvl |-> JList(<<JList(<<JNum(1700000000), JNum(5)>>)>>)]),
      JDict([tvl |-> JList(<<JList(<<JNum(1700000000)>>)>>)]),
      JDict([tvl |-> JList(<<JDict([totalLiquidityUSD |-> JNum(5)])>>)]),
      JDict([tvl |-> JList(<<JDict([totalLiquidityUSD |-> JStr("text")])>>)]),
      \* DeFiLlama fees shapes
      JDict([total24h |-> JNum(3), total7d |-> JNum(20)]),
      JDict([total24h |-> JStr("text"), total7d |-> JNull]),
      JDict([total24h |-> JNull, totalDataChart |-> JList(<<JList(<<JNum(1700000000), JNum(3)>>)>>)]),
      JDict([totalDataChart |-> JList(<<JNum(5)>>), totalDataChart7d |-> JList(<<JStr("100")>>)]),
      \* DeFiLlama incentives shapes
      JDict([bribes24hUsd |-> JNum(4), bribes7dUsd |-> JNum(9)]),
      JDict([totalBribes24hUsd |-> JNum(4), bribes7dUsd |-> JNum(0), totalBribes7dUsd |-> JNum(9)]),
      JList(<<JDict([type |-> JStr("Bribe"), valueUsd |-> JNum(4), window |-> JStr("24h")]),
              JDict([type |-> JStr("bribes"), usd |-> JNum(9), period |-> JStr("7d")]),
              JDict([type |-> JStr("emission"), valueUsd |-> JNum(1), window |-> JNum(24)])>>),
      JList(<<JDict([valueUsd |-> JNum(4), window |-> JStr("24h")])>>),
      JList(<<JDict([type |-> JNull, valueUsd |-> JNum(4), window |-> JStr("24h")])>>),
      JList(<<JDict([type |-> JStr("bribe"), valueUsd |-> JNum(4), window |-> JNum(24)])>>),
      JList(<<JDict([type |-> JStr("bribe"), valueUsd |-> JNum(4)])>>) }

InitAdapters ==
    /\ store = <<>>
    /\ given = [d \in Dates |-> NoRow]
    /\ last_kind = "none"
    /\ AdaptersIdle
    /\ RunIdle

CallVolume(j) ==
    /\ called = "none"
    /\ called' = "get_blackhole_volume_24h"
    /\ payload' = <<j>>
    /\ result' = get_blackhole_volume_24h(j)
    /\ UNCHANGED <<storeVars, runVars, lateVars>>

CallTvl(j1, j2) ==
    /\ called = "none"
    /\ called' = "get_tvl_combined"
    /\ payload' = <<j1, j2>>
    /\ result' = get_tvl_combined(j1, j2)
    /\ UNCHANGED <<storeVars, runVars, lateVars>>

CallFees(j) ==
    /\ called = "none"
    /\ called' = "get_fees_summary"
    /\ payload' = <<j>>
    /\ result' = get_fees_summary(j)
    /\ UNCHANGED <<storeVars, runVars, lateVars>>

CallBribes(j) ==
    /\ called = "none"
    /\ called' = "get_blackhole_bribes"
    /\ payload' = <<j>>
    /\ result' = get_blackhole_bribes(j)
    /\ UNCHANGED <<storeVars, runVars, lateVars>>

\* the call is over: the next one starts afresh
NextCall ==
    /\ called # "none"
    /\ called' = "none"
    /\ payload' = <<>>
    /\ result' = [raised |-> FALSE, value |-> None]
    /\ UNCHANGED <<storeVars, runVars, lateVars>>

NextAdapters ==
    \/ NextCall
    \/ \E j \in SamplePayloads : CallVolume(j)
    \/ \E j1 \in SamplePayloads : \E j2 \in SamplePayloads : CallTvl(j1, j2)
    \/ \E j \in SamplePayloads : CallFees(j)
    \/ \E j \in SamplePayloads : CallBribes(j)

SpecAdapters == InitAdapters /\ [][NextAdapters]_vars

(***************************************************************************)
(* load_summary() on summary files                                         *)
(***************************************************************************)
\* lines of a summary file of any content
MaxLines == 3

\* a blank line; lines of 1, 35, 100, 120, 125, 240, 241 and 300 characters,
\* with a space before, at and after character 240
SampleLines ==
    { Line("text", ws) : ws \in { <<>>, <<1>>, <<5, 10, 4, 13>>, <<100>>, <<60, 59>>,
                                  <<125>>, <<240>>, <<200, 40>>, <<239, 5>>, <<300>> } }

RECURSIVE SeqsUpTo(_, _)
SeqsUpTo(S, n) ==
    IF n = 0 THEN {<<>>}
    ELSE LET shorter == SeqsUpTo(S, n - 1) IN
         shorter \cup {Append(q, x) : q \in shorter, x \in S}

\* len(money(v)) of a metric: absent, "$5", "$1,200,000", and the 267
\* characters of a value of 1e200
SampleMoney == {None, Some(2), Some(10), Some(267)}

\* summary files: missing, of any content, or as main() writes them
SampleSummaries ==
    {NoSummary}
    \cup {WriteSummary(q) : q \in SeqsUpTo(SampleLines, MaxLines)}
    \cup {WriteSummary(SummaryLines(m)) :
            m \in [vol : SampleMoney, tvl : SampleMoney, fees24 : SampleMoney,
                   bribes24 : SampleMoney, avg7 : SampleMoney]}

InitSummary ==
    /\ store = <<>>
    /\ given = [d \in Dates |-> NoRow]
    /\ last_kind = "none"
    /\ AdaptersIdle
    /\ today = 1
    /\ run = NoRun
    /\ summary \in SampleSummaries
    /\ tweet = NotLoaded
    /\ LateIdle

\* tweet = load_summary() at the start of post_tweet's main()
LoadSummary ==
    /\ ~tweet.loaded
    /\ tweet' = [loaded |-> TRUE, text |-> load_summary(summary)]
    /\ UNCHANGED <<storeVars, adapterVars, today, run, summary, lateVars>>

NextSummary == LoadSummary

SpecSummary == InitSummary /\ [][NextSummary]_vars

(***************************************************************************)
(* The runs of post_tweet's main()                                         *)
(***************************************************************************)
\* summary files main() finds: missing, empty, blank, one long line, reports
\* of main() of api_fetch.py
PostSummaries ==
    {NoSummary}
    \cup {WriteSummary(q) : q \in {<<>>, <<Line("text", <<>>)>>, <<Line("text", <<1>>)>>,
                                  <<Line("text", <<240>>)>>, <<Line("text", <<239, 5>>)>>,
                                  <<Line("text", <<200, 40>>)>>, <<Line("text", <<300>>)>>,
                                  <<Line("text", <<125>>), Line("text", <<100>>)>>}}
    \cup {WriteSummary(SummaryLines(m)) :
            m \in [vol : {None, Some(10), Some(267)}, tvl : {None, Some(10)},
                   fees24 : {None, Some(10)}, bribes24 : {None, Some(10)},
                   avg7 : {None, Some(10)}]}

\* exceptions post_v2 and post_v1 raise
SampleErrors ==
    {Err(403, "403 Forbidden 187 - Status is a duplicate."),
     Err(403, "You have already posted that"),
     Err(403, "403 Forbidden"),
     Err(453, "453 - You currently have access to a subset of endpoints"),
     Err(0, "Status is a duplicate."),
     Err(0, "Not authorized"),
     Err(500, "500 Internal Server Error"),
     Err(0, "connection timed out")}

Outcomes == {Delivered} \cup {Failed(e) : e \in SampleErrors}

InitPost ==
    /\ store = <<>>
    /\ given = [d \in Dates |-> NoRow]
    /\ last_kind = "none"
    /\ AdaptersIdle
    /\ today = 1
    /\ run = NoRun
    /\ summary \in PostSummaries
    /\ tweet = NotLoaded
    /\ LateIdle

\* one run of main() of post_tweet.py
PostTweet(dry, creds, o1, o2, o3) ==
    /\ ~post.ran
    /\ \E loaded \in {load_summary(summary)} :
        /\ tweet' = [loaded |-> TRUE, text |-> loaded]
        /\ post' = PostRun(loaded, dry, creds, o1, o2, o3)
    /\ UNCHANGED <<storeVars, adapterVars, today, run, summary, procs>>

NextPost ==
    \E dry \in BOOLEAN, creds \in BOOLEAN, o1 \in Outcomes, o2 \in Outcomes, o3 \in Outcomes :
        PostTweet(dry, creds, o1, o2, o3)

SpecPost == InitPost /\ [][NextPost]_vars

(***************************************************************************)
(* Two processes in upsert_today at the same time                          *)
(***************************************************************************)
\* the CSV before the two calls: missing, or holding the first day's row
RaceStores == {<<>>, upsert_today(<<>>, 1, MakeRow(1, Some(DayVolume(1)), None, None, None, None, None, None, None))}

InitRace ==
    /\ store \in RaceStores
    /\ given = [d \in Dates |-> NoRow]
    /\ last_kind = "none"
    /\ AdaptersIdle
    /\ RunIdle

\* process p calls upsert_today(csv_path, d, r) and reads the CSV into df
\* (a date no other process is upserting)
ReadCsv(p, d, r) ==
    /\ procs[p].pc = "idle"
    /\ \A q \in ProcIds \ {p} : procs[q].date # d
    /\ procs' = [procs EXCEPT ![p] = [pc |-> "read", date |-> d, row |-> r, df |-> store]]
    /\ given' = [given EXCEPT ![d] = r]
    /\ UNCHANGED <<store, last_kind, adapterVars, runVars, post>>

\* process p drops the date's rows from its df, appends the row, sorts and
\* sets the rolling average
Modify(p) ==
    /\ procs[p].pc = "read"
    /\ procs' = [procs EXCEPT ![p].pc = "modified",
                              ![p].df = upsert_today(procs[p].df, procs[p].date, procs[p].row)]
    /\ UNCHANGED <<storeVars, adapterVars, runVars, post>>

\* process p writes its df over the CSV and returns
ToCsv(p) ==
    /\ procs[p].pc = "modified"
    /\ store' = procs[p].df
    /\ procs' = [procs EXCEPT ![p].pc = "done"]
    /\ UNCHANGED <<given, last_kind, adapterVars, runVars, post>>

NextRace ==
    \E p \in ProcIds :
        \/ \E d \in Dates : \E r \in SampleRows(d) : ReadCsv(p, d, r)
        \/ Modify(p)
        \/ ToCsv(p)

SpecRace == InitRace /\ [][NextRace]_vars

(***************************************************************************)
(* Claims about the store (checked under SpecStore)                        *)
(***************************************************************************)
RECURSIVE SumSeq(_)
SumSeq(xs) == IF xs = <<>> THEN 0 ELSE xs[1][1] + SumSeq(Tail(xs))

\* the non-absent values of xs, in order
Available(xs) == SelectSeq(xs, LAMBDA x : ~IsNone(x))

\* the arithmetic mean of the non-absent values of xs (absent when none)
MeanOfAvailable(xs) ==
    LET av == Available(xs) IN
    IF av = <<>> THEN None ELSE Frac(SumSeq(av), Len(av))

\* the last n elements of xs (all of xs when shorter)
LastN(xs, n) == SubSeq(xs, Max(1, Len(xs) - n + 1), Len(xs))

\* the fraction q as hundredths, rounded down
Hundredths(q) == (q[1] * 100) \div q[2]

StoredAvg == [i \in 1..Len(store) |-> store[i].avg7d_volume_usd]

\* C1: upsert_today is idempotent: an upsert that gives a date the very row
\* the store already holds for it (what a second application of the same
\* upsert does) leaves the stored series exactly as it is: same rows, same
\* order, same field values, same rolling averages.
C1_Idempotent == [][last_kind' = "same" => store' = store]_vars

\* an upsert has been repeated with the row already stored, on a series
\* whose averages are set
C1_Witness ==
    /\ last_kind = "same"
    /\ Len(store) >= 2
    /\ \E i \in 1..Len(store) : ~IsNone(store[i].avg7d_volume_usd)

\* C2: from the empty store, after any sequence of upserts the store holds
\* at most one row per date (none for a date never given), and the row held
\* for a date is the one most recently given for it.
C2_OneRowPerDate ==
    \A d \in Dates :
        LET held == {i \in 1..Len(store) : store[i].date = d} IN
        /\ Cardinality(held) <= 1
        /\ (given[d] = NoRow) <=> (held = {})
        /\ \A i \in held : Fetched(store[i]) = given[d]

\* a stored row has been replaced by a different row for the same date
C2_Witness ==
    /\ last_kind = "changed"
    /\ \E d \in Dates : given[d] # NoRow /\ IsNone(given[d].volume_24h_usd)
    /\ \E d \in Dates : given[d] # NoRow /\ ~IsNone(given[d].volume_24h_usd)

\* the spec's example: volumes [10, 20, None, 40] give [10, 15, 15, 23.33]
C3_ExampleVolumes == <<Some(10), Some(20), None, Some(40)>>

\* the spec's scenario: two daily runs with 1,200,000 then 900,000
C3_TwoRuns ==
    upsert_today(
        upsert_today(<<>>, 1,
            MakeRow(1, Some(1200000), None, None, None, None, None, None, None)),
        2, MakeRow(2, Some(900000), None, None, None, None, None, None, None))

\* C3: after every upsert the avg7d_volume_usd of each stored row is the
\* arithmetic mean of the non-absent volumes among that row and up to the 6
\* rows before it in date order (absent when there is none); the spec's two
\* examples come out as stated.
C3_RollingMean ==
    /\ \A i \in 1..Len(store) :
        store[i].avg7d_volume_usd =
            MeanOfAvailable(SubSeq(VolumeColumn(store), Max(1, i - 6), i))
    /\ RollingMean(C3_ExampleVolumes) = <<<<10, 1>>, <<15, 1>>, <<15, 1>>, <<70, 3>>>>
    /\ Hundredths(RollingMean(C3_ExampleVolumes)[4]) = 2333
    /\ C3_TwoRuns[2].avg7d_volume_usd = <<1050000, 1>>

\* the store holds the example series [10, 20, None, 40] with its averages
C3_Witness ==
    /\ VolumeColumn(store) = C3_ExampleVolumes
    /\ StoredAvg = <<<<10, 1>>, <<15, 1>>, <<15, 1>>, <<70, 3>>>>

\* C4 as stated: the average of a row is the mean of the up-to-7 most recent
\* non-absent volumes at or before it, volume-less rows taking no slot.
C4_Original ==
    \A i \in 1..Len(store) :
        store[i].avg7d_volume_usd =
            MeanOfAvailable(LastN(Available(SubSeq(VolumeColumn(store), 1, i)), WINDOW))

\* C4 amended: the average of a row is the mean of the non-absent volumes
\* among the 7 most recent rows at or before it: a volume-less row does take
\* a slot of the window, so the window never reaches back past the 6th row
\* before, and the average is absent when none of those 7 rows has a volume.
C4_WindowOfRows ==
    \A i \in 1..Len(store) :
        LET window == LastN(SubSeq(VolumeColumn(store), 1, i), WINDOW) IN
        /\ store[i].avg7d_volume_usd = MeanOfAvailable(window)
        /\ Available(window) = <<>> => IsNone(store[i].avg7d_volume_usd)

\* a row whose window holds a volume-less row while an older row, outside
\* the window, has a volume: the two readings differ here
C4_Witness ==
    \E i \in 1..Len(store) :
        /\ i > WINDOW
        /\ \E j \in (i - WINDOW + 1)..i : IsNone(store[j].volume_24h_usd)
        /\ \E j \in 1..(i - WINDOW) : ~IsNone(store[j].volume_24h_usd)
        /\ store[i].avg7d_volume_usd #
            MeanOfAvailable(LastN(Available(SubSeq(VolumeColumn(store), 1, i)), WINDOW))

(***************************************************************************)
(* Claims about the source adapters (checked under SpecAdapters)           *)
(***************************************************************************)
\* C8: no source adapter raises, whatever JSON the upstream returns:
\* get_blackhole_volume_24h, get_tvl_combined, get_fees_summary and
\* get_blackhole_bribes each return a value-or-absent result.
C8_NoAdapterRaises == ~result.raised

\* the part of C8 that the code keeps: get_fees_summary never raises
C8_FeesNeverRaises == called = "get_fees_summary" => ~result.raised

(***************************************************************************)
(* Claims about the daily runs (checked under Spec)                        *)
(***************************************************************************)
\* the fields main() fetches
MetricFields ==
    {"volume_24h_usd", "tvl_usd", "fees_24h_usd", "fees_7d_usd",
     "revenue_24h_usd", "revenue_7d_usd", "bribes_24h_usd", "bribes_7d_usd"}

RowsOf(d) == {i \in 1..Len(store) : store[i].date = d}

\* the most recent row stored for a day before today (NoRow when none)
LastKnown ==
    LET before == {i \in 1..Len(store) : store[i].date < today} IN
    IF before = {} THEN NoRow
    ELSE store[CHOOSE i \in before : \A k \in before : k <= i]

\* C5 as stated: after a run, a field for which every source failed today
\* carries the value of the most recent previously stored row that has one.
C5_FallbackToLastKnown ==
    run.status = "done" =>
        \A f \in MetricFields :
            (/\ IsNone(run.api[f])
             /\ IsNone(run.scraped[f])
             /\ LastKnown # NoRow
             /\ ~IsNone(LastKnown[f]))
            => \A i \in RowsOf(today) : store[i][f] = LastKnown[f]

ZeroVolumeReplaced(f) ==
    /\ f = "volume_24h_usd"
    /\ run.api[f] = Some(0)
    /\ ~IsNone(run.scraped[f])

C7_AllFailStillCompletes ==
    (run.status # "none" /\ run.all_failed) =>
        /\ run.status = "done"
        /\ Cardinality(RowsOf(today)) = 1
        /\ \A i \in RowsOf(today) : \A f \in MetricFields : IsNone(store[i][f])
        /\ summary = WriteSummary(SummaryLines(ValsMoney(store, today)))
        /\ summary.exists
        /\ summary.lines[1].kind = "headline"

\* every source failed on the second day, after a first day with a volume
C7_Witness ==
    /\ run.status = "done"
    /\ run.all_failed
    /\ today = 2
    /\ Len(store) = 2
    /\ ~IsNone(store[1].volume_24h_usd)
    /\ IsNone(store[2].volume_24h_usd)

(***************************************************************************)
(* Claims about load_summary (checked under SpecSummary)                   *)
(***************************************************************************)
\* C9: whatever the summary file holds, the text load_summary returns, the
\* appended hashtag block included, is at most MAX_LEN = 280 characters long.
C9_WithinMaxLen == tweet.loaded => TextLen(tweet.text) <= MAX_LEN

\* a file longer than MAX_LEN whose first line alone is over the limit: the
\* text returned is a cut line and the hashtag block
C9_Witness ==
    /\ tweet.loaded
    /\ TextLen(NonBlank(summary.lines)) > MAX_LEN
    /\ Len(tweet.text) = 2
    /\ ~tweet.text[1].whole
    /\ tweet.text[2] = Line("hashtags", HashtagWords)
    /\ TextLen(tweet.text) > KEEP_LEN

\* the summary file is one main() wrote
Composed ==
    /\ summary.exists
    /\ summary.lines # <<>>
    /\ summary.lines[1].kind = "headline"

\* the text returned has the file's line of this kind, uncut
KeptWhole(kind) ==
    \E i \in 1..Len(tweet.text) : tweet.text[i].kind = kind /\ tweet.text[i].whole

InFile(kind) == \E i \in 1..Len(summary.lines) : summary.lines[i].kind = kind

\* C10 as stated: of a report main() wrote, the text load_summary returns
\* keeps the headline line and, when the report has one, the 24h-volume line,
\* both uncut.
C10_HeadlineAndVolumeKept ==
    (tweet.loaded /\ Composed) =>
        /\ KeptWhole("headline")
        /\ InFile("vol") => KeptWhole("vol")

(***************************************************************************)
(* Claims about the composed report (checked under Spec and SpecSummary)   *)
(***************************************************************************)
\* the kinds of the metric lines of the report
MetricKinds == {"vol", "tvl", "fees24", "bribes24", "avg7"}

\* the field of the stored row a metric line renders
FieldOf(kind) ==
    CASE kind = "vol" -> "volume_24h_usd"
      [] kind = "tvl" -> "tvl_usd"
      [] kind = "fees24" -> "fees_24h_usd"
      [] kind = "bribes24" -> "bribes_24h_usd"
      [] kind = "avg7" -> "avg7d_volume_usd"

LinesOfKind(lines, kind) == {i \in 1..Len(lines) : lines[i].kind = kind}

\* C11: after a run the report holds the line of a metric (once) exactly
\* when today's stored row has a value for that metric; an absent metric has
\* no line at all, so no placeholder either.
C11_MetricLineIffPresent ==
    run.status = "done" =>
        /\ RowsOf(today) # {}
        /\ \A i \in RowsOf(today) : \A k \in MetricKinds :
            Cardinality(LinesOfKind(summary.lines, k)) =
                IF IsNone(store[i][FieldOf(k)]) THEN 0 ELSE 1

\* a report with the volume and 7-day lines and without the TVL, fees and
\* bribes lines, today's row having the one and not the others
C11_Witness ==
    /\ run.status = "done"
    /\ \E i \in RowsOf(today) :
        /\ ~IsNone(store[i].volume_24h_usd)
        /\ IsNone(store[i].tvl_usd)
        /\ IsNone(store[i].bribes_24h_usd)
    /\ InFile("vol")
    /\ InFile("avg7")
    /\ ~InFile("tvl")
    /\ ~InFile("bribes24")

\* C12 as stated: the report of a run in which no source succeeded has no
\* metric line, whatever the store held before.
C12_NoMetricLineWhenAllFail ==
    (run.status = "done" /\ run.all_failed) =>
        \A k \in MetricKinds : ~InFile(k)

\* the headline and the 24h-volume line of the report, with the hashtag
\* block, do not fit in MAX_LEN
BudgetInfeasible ==
    /\ Composed
    /\ InFile("vol")
    /\ TextLen(SelectSeq(summary.lines, LAMBDA l : l.kind \in {"headline", "vol"}))
            + 1 + LineLen(Line("hashtags", HashtagWords)) > MAX_LEN

\* C13 as stated: when headline and volume line alone exceed the budget,
\* no text comes out of load_summary for the publisher.
C13_InfeasibleGivesNoText ==
    (tweet.loaded /\ BudgetInfeasible) => tweet.text = <<>>

\* C19 as stated: of a report main() wrote, the text load_summary returns
\* holds the hashtag line exactly once.
C19_HashtagsOnce ==
    (tweet.loaded /\ Composed) =>
        Cardinality(LinesOfKind(tweet.text, "hashtags")) = 1

(***************************************************************************)
(* The frame of upsert_today (checked under SpecStore)                     *)
(***************************************************************************)
\* the rows of df for date d, as they were given
RowsAsGiven(df, d) ==
    LET rows == SelectSeq(df, LAMBDA r : r.date = d) IN
    [i \in 1..Len(rows) |-> Fetched(rows[i])]

\* C15: an upsert changes the rows of one date at most: for every other
\* date the store holds the same rows as before, equal in every field but
\* avg7d_volume_usd.
C15_OtherDatesUntouched ==
    [][\E d \in Dates : \A e \in Dates \ {d} :
            RowsAsGiven(store', e) = RowsAsGiven(store, e)]_vars

\* a row has been replaced while the store holds rows of earlier and of
\* later dates
C15_Witness ==
    /\ last_kind = "changed"
    /\ Len(store) >= 3
    /\ \E d \in Dates :
        /\ given[d] # NoRow /\ IsNone(given[d].volume_24h_usd)
        /\ \E e \in Dates : e < d /\ given[e] # NoRow /\ ~IsNone(given[e].volume_24h_usd)
        /\ \E e \in Dates : e > d /\ given[e] # NoRow /\ ~IsNone(given[e].volume_24h_usd)

(***************************************************************************)
(* Claims about the delivery (checked under SpecPost)                      *)
(***************************************************************************)
\* the attempts of the run, by position
Attempts == 1..Len(post.attempts)

\* the first delivery failed with a duplicate-content error
FirstFailedDuplicate ==
    /\ post.attempts # <<>>
    /\ ~post.attempts[1].outcome.ok
    /\ is_duplicate_error(post.attempts[1].outcome.e)

\* the text ends with the update tag
EndsWithTag(text) ==
    /\ text # <<>>
    /\ LET ws == text[Len(text)].words IN
       /\ Len(ws) > Len(TagWords)
       /\ SubSeq(ws, Len(ws) - Len(TagWords) + 1, Len(ws)) = TagWords

\* the text without the tag at its end
WithoutTag(text) ==
    LET ws == text[Len(text)].words IN
    Truncate([text EXCEPT ![Len(text)].words = SubSeq(ws, 1, Len(ws) - Len(TagWords))],
             TextLen(text) - TagLen)

\* C14: a run makes at most one attempt with the update tag, and only as the
\* second attempt after a first one that failed with a duplicate-content
\* error; that attempt goes to v2, its text is the start of the tweet
\* followed by the tag, and is at most MAX_LEN = 280 characters long.
C14_OneTaggedRetry ==
    post.ran =>
        /\ \A i \in Attempts : EndsWithTag(post.attempts[i].text) => (i = 2 /\ FirstFailedDuplicate)
        /\ FirstFailedDuplicate =>
            /\ Len(post.attempts) >= 2
            /\ post.attempts[2].api = "v2"
            /\ EndsWithTag(post.attempts[2].text)
            /\ TextLen(post.attempts[2].text) <= MAX_LEN
            /\ WithoutTag(post.attempts[2].text) =
                    Truncate(tweet.text, TextLen(post.attempts[2].text) - TagLen)

\* a duplicate-content failure of a tweet too long for the tag: the retry
\* carries a cut text and the tag, MAX_LEN characters in all
C14_Witness ==
    /\ post.ran
    /\ FirstFailedDuplicate
    /\ TextLen(tweet.text) + TagLen > MAX_LEN
    /\ TextLen(post.attempts[2].text) = MAX_LEN
    /\ EndsWithTag(post.attempts[2].text)

\* C17 as stated: no delivery error is both a duplicate-content and a
\* permission error, and after a duplicate-content failure of the first
\* delivery the run makes no v1.1 attempt.
C17_DuplicateNeverPermission ==
    post.ran =>
        /\ \A i \in Attempts :
            ~post.attempts[i].outcome.ok =>
                ~(/\ is_duplicate_error(post.attempts[i].outcome.e)
                  /\ is_permission_error(post.attempts[i].outcome.e))
        /\ FirstFailedDuplicate => \A i \in Attempts : post.attempts[i].api # "v1.1"

\* the order of the attempts of a run and its exit status
AttemptOrder ==
    /\ post.attempts # <<>> => post.attempts[1].api = "v2"
    /\ \A i \in Attempts :
        post.attempts[i].api = "v1.1" =>
            \E j \in 1..(i - 1) :
                post.attempts[j].api = "v2" /\ ~post.attempts[j].outcome.ok
    /\ \A i \in Attempts : post.attempts[i].outcome.ok => i = Len(post.attempts)
    /\ Len(post.attempts) <= 3
    /\ post.exit = 1 <=>
        (post.attempts # <<>> /\ \A i \in Attempts : ~post.attempts[i].outcome.ok)
    /\ (post.dry \/ ~post.creds) => post.attempts = <<>>

\* the summary file is missing or has no line but blank ones
EmptySummary == NonBlank(summary.lines) = <<>>

\* C18 as stated: v2 first, v1.1 only after a v2 failure, nothing after a
\* success, at most three attempts, exit status 1 exactly when an attempt
\* was made and none succeeded, and no attempt with an empty summary, with
\* DRY_RUN set or with a credential missing.
C18_AttemptOrder ==
    post.ran =>
        /\ AttemptOrder
        /\ EmptySummary => post.attempts = <<>>

\* what the code keeps of C18: the order of the attempts, and no attempt
\* when the summary file is missing
AttemptOrderWhenLoaded ==
    post.ran =>
        /\ AttemptOrder
        /\ ~summary.exists => post.attempts = <<>>

(***************************************************************************)
(* Claims about concurrent upserts (checked under SpecRace)                *)
(***************************************************************************)
\* C16 as stated: when the processes have all returned from upsert_today,
\* the store holds the row of each of them.
C16_NoLostUpdate ==
    (\A p \in ProcIds : procs[p].pc = "done") =>
        \A p \in ProcIds :
            \E i \in 1..Len(store) :
                store[i].date = procs[p].date /\ Fetched(store[i]) = procs[p].row

====
